---- MODULE Spec2Model ----
(***************************************************************************)
(* Model of data/pack_positions_h5.py: parse_dump_frames, the generator    *)
(* that decodes a LAMMPS text dump one loop iteration at a time, and       *)
(* pack_dataset_to_h5, which drives it seed by seed and appends the        *)
(* yielded frames to one HDF5 group per seed.                              *)
(*                                                                         *)
(* A line of a dump is the sequence of its whitespace-separated tokens     *)
(* (str.split()); every token is a string, numbers included, so int() and  *)
(* float() are real conversions that can fail.  startswith(HDR) is         *)
(* modelled on whole tokens.  A seed identifier is a sequence of           *)
(* characters, so that str.strip() has something to remove.                *)
(* pack_dataset_to_h5 is taken with phase = temperature = None.            *)
(***************************************************************************)
EXTENDS Integers, Sequences, FiniteSets, TLC

\* ------------------------------------------------------------------ bounds
MaxFrames == 3
MaxAtoms == 2
MaxSkip == 2
MaxSeeds == 2
MaxNum == 99

\* ------------------------------------------------------- program constants
None == -1

HDR_TS == <<"ITEM:", "TIMESTEP">>
HDR_N  == <<"ITEM:", "NUMBER", "OF", "ATOMS">>
HDR_BB == <<"ITEM:", "BOX", "BOUNDS">>
HDR_AT == <<"ITEM:", "ATOMS">>

\* ------------------------------------------------------------ conversions
Digit == <<"0", "1", "2", "3", "4", "5", "6", "7", "8", "9">>

RECURSIVE ToStr(_)
ToStr(n) == IF n < 10 THEN Digit[n + 1]
            ELSE ToStr(n \div 10) \o Digit[(n % 10) + 1]

NumTab == [n \in 0..MaxNum |-> ToStr(n)]

\* int(tok) succeeds exactly on the decimal numerals.
IsInt(tok) == \E n \in 0..MaxNum : NumTab[n] = tok

IntOf(tok) == CHOOSE n \in 0..MaxNum : NumTab[n] = tok

\* float(tok) stored into a float32 array: the numerals of the model are
\* integers below 2^24, which float32 holds exactly.
IsFloat(tok) == IsInt(tok)

Float32Of(tok) == IntOf(tok)

\* line.startswith(hdr), on whole tokens.
StartsWith(toks, hdr) ==
    /\ Len(toks) >= Len(hdr)
    /\ SubSeq(toks, 1, Len(hdr)) = hdr

\* seed.strip(): leading and trailing blanks removed.
RECURSIVE LStrip(_)
LStrip(s) == IF s # <<>> /\ Head(s) = " " THEN LStrip(Tail(s)) ELSE s

RECURSIVE RStrip(_)
RStrip(s) == IF s # <<>> /\ s[Len(s)] = " "
             THEN RStrip(SubSeq(s, 1, Len(s) - 1)) ELSE s

Strip(s) == RStrip(LStrip(s))

Max(a, b) == IF a >= b THEN a ELSE b

\* --------------------------------------------------------- the dump files
\* The dump files the model reads are built from a description: per frame
\* the declared atom count, per file the order of the atom ids, the column
\* layout and the noise lines, and at most one defect at one frame.
LayoutA == <<"id", "type", "x", "y", "z">>
LayoutB == <<"id", "x", "y", "z", "type">>
LayoutC == <<"z", "y", "x", "id">>

Styles == {"asc", "desc", "dup", "altB", "altC", "noisy"}

LayoutOf(style) == CASE style = "altB" -> LayoutB
                     [] style = "altC" -> LayoutC
                     [] OTHER -> LayoutA

\* The id of the i-th atom line of a frame of n atoms.
IdOf(style, n, i) == CASE style = "asc" -> i
                       [] style = "dup" -> 1
                       [] OTHER -> n + 1 - i

\* The value under column `col` of the i-th atom line of frame j (0-based).
Cell(col, j, i, id) == CASE col = "id" -> ToStr(id)
                         [] col = "x" -> ToStr(10 * j + i)
                         [] col = "y" -> ToStr(50 + i)
                         [] col = "z" -> ToStr(60 + id)
                         [] OTHER -> "7"

AtomLine(style, j, n, i) ==
    LET lay == LayoutOf(style)
    IN [c \in 1..Len(lay) |-> Cell(lay[c], j, i, IdOf(style, n, i))]

AtomLines(style, j, n, upto) == [i \in 1..upto |-> AtomLine(style, j, n, i)]

Without(s, x) == SelectSeq(s, LAMBDA c : c # x)

\* The lines of frame j (0-based) of n atoms.  defect: "none", "hdr" (the
\* ATOMS header lacks z), "nocount" (no NUMBER OF ATOMS section),
\* "hdr_nocount" (both), "trunc" (the atom block stops one line short),
\* "badcount" (the atom count is no numeral), "short" (the last atom line
\* lacks its last two tokens), "noatoms" (no ATOMS section), "twice" (the
\* ATOMS section comes twice).
FrameLines(style, j, n, defect) ==
    LET noisy == style = "noisy"
        lay == IF defect \in {"hdr", "hdr_nocount"}
               THEN Without(LayoutOf(style), "z") ELSE LayoutOf(style)
    IN  (IF noisy THEN << <<>>, <<"#", "frame">> >> ELSE <<>>)
        \o << HDR_TS, <<ToStr(j)>> >>
        \o (IF defect \in {"nocount", "hdr_nocount"} THEN <<>>
            ELSE << HDR_N, <<IF defect = "badcount" THEN "two" ELSE ToStr(n)>> >>)
        \o << HDR_BB \o <<"pp", "pp", "pp">>,
              <<"0", "9">>, <<"0", "9">>, <<"0", "9">> >>
        \o (IF noisy THEN << <<"ITEM:", "UNITS">>, <<"lj">> >> ELSE <<>>)
        \o (IF defect = "noatoms" THEN <<>>
            ELSE << HDR_AT \o lay >>
                 \o AtomLines(style, j, n,
                              IF defect \in {"trunc", "short"} THEN n - 1 ELSE n))
        \o (IF defect = "short"
            THEN << SubSeq(AtomLine(style, j, n, n), 1, Len(LayoutOf(style)) - 2) >>
            ELSE <<>>)
        \o (IF defect = "twice"
            THEN << HDR_AT \o lay >> \o AtomLines(style, j, n, n)
            ELSE <<>>)

RECURSIVE Concat(_)
Concat(ss) == IF ss = <<>> THEN <<>> ELSE Head(ss) \o Concat(Tail(ss))

\* A file of Len(ns) frames, frame j of ns[j+1] atoms, with `defect` at the
\* 1-based frame p (p = 0: no defect).  A truncated file ends at frame p.
FileOf(style, ns, p, defect) ==
    LET T == IF defect = "trunc" /\ p > 0 THEN p ELSE Len(ns)
    IN Concat([j \in 1..T |->
                 FrameLines(style, j - 1, ns[j], IF j = p THEN defect ELSE "none")])

AtomCounts == UNION {[1..T -> 1..MaxAtoms] : T \in 0..MaxFrames}

WellFormedFiles == {FileOf(style, ns, 0, "none") : style \in Styles, ns \in AtomCounts}

Defects == {"hdr", "nocount", "hdr_nocount", "trunc", "badcount", "short",
            "noatoms", "twice"}

DefectFiles ==
    UNION {{FileOf("asc", [j \in 1..T |-> n], p, d) : p \in 1..T, d \in Defects}
           : T \in 1..MaxFrames, n \in 1..MaxAtoms}

Files == WellFormedFiles \cup DefectFiles

\* ------------------------------------------------------------- the inputs
SeedStrings == {<<"a">>, <<"a", " ">>, <<"b">>, <<"c">>, <<" ">>}

SeedLists == UNION {[1..k -> SeedStrings] : k \in 1..MaxSeeds}

\* The dataset directory: glob finds a dump for seeds a and b, none for c.
dumps == {<<"a">>, <<"b">>}

\* The dumps of the runs over several seeds: files of 0..MaxFrames frames of
\* MaxAtoms atoms each with noise lines, a file whose second frame has more atoms than its
\* first, one whose second frame has a single atom, and three with a defect.
SeedFiles ==
    {FileOf("noisy", [j \in 1..T |-> MaxAtoms], 0, "none") : T \in 0..MaxFrames}
    \cup {FileOf("desc", <<1, MaxAtoms>>, 0, "none"),
          FileOf("desc", <<MaxAtoms, 1>>, 0, "none"),
          FileOf("asc", <<MaxAtoms>>, 1, "hdr"),
          FileOf("asc", <<MaxAtoms>>, 1, "nocount"),
          FileOf("asc", <<MaxAtoms, MaxAtoms>>, 2, "trunc")}

\* -------------------------------------------------------------- the state
VARIABLES
    seeds,          \* pack_dataset_to_h5's argument: the seed list
    skip_frames,    \* its argument skip_frames
    pc,             \* "seed" | "parse" | "yielded" | "done" | "raised"
    cur,            \* 1-based position in seeds of the for loop (line 71)
    groups,         \* the container: group name -> [attrs, dset]
    closes,         \* how many times the container was closed
    warnings,       \* the [WARN] lines printed, in order
    err,            \* the exception that left pack_dataset_to_h5
    grp,            \* name of the group of the seed in progress
    seed_n_atoms,   \* pack_dataset_to_h5's local n_atoms
    frames_written, \* its local frames_written
    file,           \* the lines of the dump being parsed
    nread,          \* lines consumed by f.readline() so far
    line,           \* parse_dump_frames' local line
    frame,          \* its local frame
    n_atoms,        \* its local n_atoms
    ids,            \* its local ids (rows filled so far)
    pos,            \* its local pos (rows filled so far)
    yielded,        \* the pair the generator last yielded
    filename,       \* parse_filename's argument, a sequence of characters
    name_pc,        \* "idle" | "start" | "loop" | "returned" | "raised"
    name_parts,     \* parse_filename's local parts
    part_no,        \* 1-based position in parts of its for loop (line 62)
    parsed          \* its local parsed: key -> value

vars == <<seeds, skip_frames, pc, cur, groups, closes, warnings, err,
          grp, seed_n_atoms, frames_written, file, nread, line, frame,
          n_atoms, ids, pos, yielded, filename, name_pc, name_parts,
          part_no, parsed>>

nameVars == <<filename, name_pc, name_parts, part_no, parsed>>

inputVars == <<seeds, skip_frames>>

packVars == <<cur, groups, closes, warnings, err, grp, seed_n_atoms,
              frames_written>>

\* f.readline() after n lines were consumed: the next line, or "" at the end.
LineAt(f, n) == IF n < Len(f) THEN [eof |-> FALSE, toks |-> f[n + 1]]
                ELSE [eof |-> TRUE, toks |-> <<>>]

Adv(f, n) == IF n < Len(f) THEN n + 1 ELSE n

NoErr == [kind |-> "none", seed |-> <<>>]

NoYield == [fidx |-> None, pos |-> <<>>]

NoGroups == [g \in {} |-> 0]

NewGroupWithArray == [attrs |-> [k \in {} |-> 0],
                      dset |-> [exists |-> TRUE, n |-> 0, data |-> <<>>]]

\* Lines 83-85: a group with no attribute and no array.
NewGroup == [attrs |-> [k \in {} |-> 0],
             dset |-> [exists |-> FALSE, n |-> None, data |-> <<>>]]

\* Line 39: parsed = {}.
NoKeys == [k \in {} |-> 0]

\* parse_filename before it is called, or not called at all.
NameInit(names, at) ==
    /\ filename \in names
    /\ name_pc = at
    /\ name_parts = <<>>
    /\ part_no = 0
    /\ parsed = NoKeys

\* pack_dataset_to_h5 entered with one of the seed lists.
PackInit(lists, skips) ==
    /\ seeds \in lists
    /\ skip_frames \in skips
    /\ pc = "seed"
    /\ cur = 1
    /\ groups = NoGroups
    /\ closes = 0
    /\ warnings = <<>>
    /\ err = NoErr
    /\ grp = <<>>
    /\ seed_n_atoms = None
    /\ frames_written = 0
    /\ file = <<>>
    /\ nread = 0
    /\ line = LineAt(<<>>, 0)
    /\ frame = -1
    /\ n_atoms = None
    /\ ids = <<>>
    /\ pos = <<>>
    /\ yielded = NoYield

InitWith(lists) == NameInit({<<>>}, "idle") /\ PackInit(lists, 0..MaxSkip)

\* A run over a list of seeds.
Init == InitWith(SeedLists)

\* A run over the one seed a.
InitOne == InitWith({<< <<"a">> >>})

\* An exception leaves the with block: the container is closed on the way
\* out and the exception reaches the caller.
RaiseNoClose(kind, seed) ==
    /\ pc' = "raised"
    /\ err' = [kind |-> kind, seed |-> seed]
    /\ closes' = closes
    /\ cur' = cur

RaiseSwallowed(kind, seed) ==
    /\ pc' = "seed"
    /\ err' = [kind |-> kind, seed |-> seed]
    /\ closes' = closes
    /\ cur' = cur + 1

\* Lines 64-110 hold no try: the for loop is left at the seed that failed.
Raise(kind, seed) ==
    /\ pc' = "raised"
    /\ err' = [kind |-> kind, seed |-> seed]
    /\ closes' = closes + 1
    /\ cur' = cur

parseVars == <<file, nread, line, frame, n_atoms, ids, pos, yielded>>

\* ------------------------------------------------- pack_dataset_to_h5
AtSeed == pc = "seed" /\ cur <= Len(seeds)

\* Lines 72-74: a seed that is blank after strip() is passed over.
BlankSeed ==
    /\ AtSeed
    /\ Strip(seeds[cur]) = <<>>
    /\ cur' = cur + 1
    /\ UNCHANGED <<inputVars, nameVars, pc, groups, closes, warnings, err, grp,
                   seed_n_atoms, frames_written, parseVars>>

NoDumpRaises ==
    /\ pc = "seed" /\ cur <= Len(seeds)
    /\ Strip(seeds[cur]) # <<>>
    /\ Strip(seeds[cur]) \notin dumps
    /\ Raise("list index out of range", Strip(seeds[cur]))
    /\ UNCHANGED <<inputVars, nameVars, groups, warnings, grp, seed_n_atoms,
                   frames_written, parseVars>>

\* Lines 75-80: glob finds no dump: one warning, next seed.
NoDump ==
    /\ AtSeed
    /\ Strip(seeds[cur]) # <<>>
    /\ Strip(seeds[cur]) \notin dumps
    /\ warnings' = Append(warnings, <<"No dump found", Strip(seeds[cur])>>)
    /\ cur' = cur + 1
    /\ UNCHANGED <<inputVars, nameVars, pc, groups, closes, err, grp, seed_n_atoms,
                   frames_written, parseVars>>

GroupExistsReplaces ==
    /\ AtSeed
    /\ Strip(seeds[cur]) # <<>>
    /\ Strip(seeds[cur]) \in dumps
    /\ Strip(seeds[cur]) \in DOMAIN groups
    /\ Raise("group exists", Strip(seeds[cur]))
    /\ groups' = [groups EXCEPT ![Strip(seeds[cur])] = NewGroup]
    /\ UNCHANGED <<inputVars, nameVars, warnings, grp, seed_n_atoms,
                   frames_written, parseVars>>

\* Line 83: h5.create_group(seed) raises ValueError when the name exists.
GroupExists ==
    /\ AtSeed
    /\ Strip(seeds[cur]) # <<>>
    /\ Strip(seeds[cur]) \in dumps
    /\ Strip(seeds[cur]) \in DOMAIN groups
    /\ Raise("group exists", Strip(seeds[cur]))
    /\ UNCHANGED <<inputVars, nameVars, groups, warnings, grp, seed_n_atoms,
                   frames_written, parseVars>>

\* Lines 81-87 and 10-13: the group is created, the locals are reset, and
\* the first next() on the generator opens the dump, one of the files fs,
\* and reads its first line.
OpenDump(fs) ==
    /\ AtSeed
    /\ Strip(seeds[cur]) # <<>>
    /\ Strip(seeds[cur]) \in dumps
    /\ Strip(seeds[cur]) \notin DOMAIN groups
    /\ \E f \in fs :
          /\ file' = f
          /\ line' = LineAt(f, 0)
          /\ nread' = Adv(f, 0)
    /\ grp' = Strip(seeds[cur])
    /\ groups' = (Strip(seeds[cur]) :> NewGroup) @@ groups
    /\ seed_n_atoms' = None
    /\ frames_written' = 0
    /\ frame' = -1
    /\ n_atoms' = None
    /\ ids' = <<>>
    /\ pos' = <<>>
    /\ yielded' = NoYield
    /\ pc' = "parse"
    /\ UNCHANGED <<inputVars, nameVars, cur, closes, warnings, err>>

OpenSeed == OpenDump(SeedFiles)

OpenOne == OpenDump(Files)

\* Line 64: the seed list is exhausted, the with block closes the container.
Return ==
    /\ pc = "seed"
    /\ cur > Len(seeds)
    /\ pc' = "done"
    /\ closes' = closes + 1
    /\ UNCHANGED <<inputVars, nameVars, cur, groups, warnings, err, grp, seed_n_atoms,
                   frames_written, parseVars>>

SetAttr(g, k, v) == [g EXCEPT !.attrs = (k :> v) @@ g.attrs]

FramesAttrLastIndex(fw) == fw - 1

\* Line 108: the value written to the frames attribute.
FramesAttr(fw) == fw

\* Lines 14 and 108-110: the generator is exhausted at end of input; the
\* for loop ends, the frames attribute is written and an empty seed warned.
Finalize ==
    /\ pc = "parse"
    /\ line.eof
    /\ groups' = [groups EXCEPT ![grp] = SetAttr(@, "frames", FramesAttr(frames_written))]
    /\ warnings' = IF frames_written = 0
                   THEN Append(warnings, <<"No frames written", grp>>)
                   ELSE warnings
    /\ cur' = cur + 1
    /\ pc' = "seed"
    /\ UNCHANGED <<inputVars, nameVars, closes, err, grp, seed_n_atoms, frames_written,
                   parseVars>>

\* The fill value of a slot that resize() added and nothing wrote yet.
ZeroFrame(n) == [i \in 1..n |-> <<0, 0, 0>>]

ResizeFresh(d, len) == [d EXCEPT !.data = [i \in 1..len |-> ZeroFrame(d.n)]]

\* Line 104: dset.resize((len, n_atoms, 3)).
Resize(d, len) ==
    [d EXCEPT !.data = [i \in 1..len |->
                          IF i <= Len(d.data) THEN d.data[i] ELSE ZeroFrame(d.n)]]

\* Line 105: h5py accepts a source of m rows for a slot of n rows when m = n,
\* and also when m = 1: a length-1 axis is broadcast over the selection.
CanWrite(n, m) == m = n \/ m = 1

\* Line 105: what the slot holds after dset[k, :, :] = rows.
Written(n, rows) == IF Len(rows) = n THEN rows ELSE [i \in 1..n |-> rows[1]]

CreateDatasetFixed(g, n) ==
    [SetAttr(g, "n_atoms", MaxAtoms) EXCEPT
        !.dset = [exists |-> TRUE, n |-> MaxAtoms, data |-> <<>>]]

\* Lines 88-98: the first frame of a seed fixes n_atoms and creates the array.
CreateDataset(g, n) ==
    [SetAttr(g, "n_atoms", n) EXCEPT !.dset = [exists |-> TRUE, n |-> n, data |-> <<>>]]

\* Lines 87-106, then line 58 as the for loop calls next(): the body of the
\* for loop on one yielded frame.
AppendFrame ==
    /\ pc = "yielded"
    /\ LET m == Len(yielded.pos)
           n == IF seed_n_atoms = None THEN m ELSE seed_n_atoms
           g1 == IF seed_n_atoms = None THEN CreateDataset(groups[grp], n)
                 ELSE groups[grp]
           g2 == [g1 EXCEPT !.dset = Resize(@, frames_written + 1)]
       IN /\ seed_n_atoms' = n
          /\ IF CanWrite(n, m)
             THEN /\ groups' = [groups EXCEPT ![grp] =
                        [g2 EXCEPT !.dset.data[frames_written + 1] = Written(n, yielded.pos)]]
                  /\ frames_written' = frames_written + 1
                  /\ line' = LineAt(file, nread)
                  /\ nread' = Adv(file, nread)
                  /\ pc' = "parse"
                  /\ UNCHANGED <<cur, closes, err>>
             ELSE /\ groups' = [groups EXCEPT ![grp] = g2]
                  /\ Raise("cannot broadcast", grp)
                  /\ UNCHANGED <<frames_written, line, nread>>
    /\ UNCHANGED <<inputVars, nameVars, warnings, grp, file, frame, n_atoms, ids,
                   pos, yielded>>

\* ---------------------------------------------------- parse_dump_frames
Parsing == pc = "parse" /\ ~line.eof

IsItem == StartsWith(line.toks, <<"ITEM:">>)

SkipLineEndsAtBlank ==
    /\ Parsing
    /\ ~IsItem
    /\ line' = IF line.toks = <<>> THEN [eof |-> TRUE, toks |-> <<>>]
               ELSE LineAt(file, nread)
    /\ nread' = Adv(file, nread)
    /\ UNCHANGED <<inputVars, nameVars, pc, packVars, file, frame, n_atoms, ids, pos,
                   yielded>>

\* Lines 15-16: a line that is no section header is skipped.
SkipLine ==
    /\ Parsing
    /\ ~IsItem
    /\ line' = LineAt(file, nread)
    /\ nread' = Adv(file, nread)
    /\ UNCHANGED <<inputVars, nameVars, pc, packVars, file, frame, n_atoms, ids, pos,
                   yielded>>

\* Lines 18-21: the value line is read and dropped, the counter advances.
Timestep ==
    /\ Parsing
    /\ StartsWith(line.toks, HDR_TS)
    /\ frame' = frame + 1
    /\ line' = LineAt(file, Adv(file, nread))
    /\ nread' = Adv(file, Adv(file, nread))
    /\ UNCHANGED <<inputVars, nameVars, pc, packVars, file, n_atoms, ids, pos, yielded>>

\* int(f.readline().strip()): the line must be one numeral.
IsCount(l) == ~l.eof /\ Len(l.toks) = 1 /\ IsInt(l.toks[1])

\* Lines 23-25.
NumberOfAtoms ==
    /\ Parsing
    /\ ~StartsWith(line.toks, HDR_TS)
    /\ StartsWith(line.toks, HDR_N)
    /\ IF IsCount(LineAt(file, nread))
       THEN /\ n_atoms' = IntOf(LineAt(file, nread).toks[1])
            /\ line' = LineAt(file, Adv(file, nread))
            /\ nread' = Adv(file, Adv(file, nread))
            /\ UNCHANGED <<pc, cur, closes, err>>
       ELSE /\ Raise("invalid literal", grp)
            /\ nread' = Adv(file, nread)
            /\ UNCHANGED <<n_atoms, line>>
    /\ UNCHANGED <<inputVars, nameVars, groups, warnings, grp, seed_n_atoms,
                   frames_written, file, frame, ids, pos, yielded>>

Adv3(f, n) == Adv(f, Adv(f, Adv(f, n)))

\* Lines 27-29: three lines are read and dropped whatever they hold.
BoxBounds ==
    /\ Parsing
    /\ ~StartsWith(line.toks, HDR_TS)
    /\ ~StartsWith(line.toks, HDR_N)
    /\ StartsWith(line.toks, HDR_BB)
    /\ line' = LineAt(file, Adv3(file, nread))
    /\ nread' = Adv(file, Adv3(file, nread))
    /\ UNCHANGED <<inputVars, nameVars, pc, packVars, file, frame, n_atoms, ids, pos,
                   yielded>>

\* Line 60: an ITEM: header of no known section.
UnknownItem ==
    /\ Parsing
    /\ IsItem
    /\ ~StartsWith(line.toks, HDR_TS)
    /\ ~StartsWith(line.toks, HDR_N)
    /\ ~StartsWith(line.toks, HDR_BB)
    /\ ~StartsWith(line.toks, HDR_AT)
    /\ line' = LineAt(file, nread)
    /\ nread' = Adv(file, nread)
    /\ UNCHANGED <<inputVars, nameVars, pc, packVars, file, frame, n_atoms, ids, pos,
                   yielded>>

ColIdxFixed(cols, name) == CASE name = "id" -> 0
                             [] name = "x" -> 2
                             [] name = "y" -> 3
                             [] OTHER -> 4

\* cols.index(name) - 2: the 0-based position of the column in an atom line.
Has(cols, name) == \E c \in 1..Len(cols) : cols[c] = name

ColIdx(cols, name) ==
    (CHOOSE c \in 1..Len(cols) :
        cols[c] = name /\ \A d \in 1..(c - 1) : cols[d] # name) - 1 - 2

\* Lines 33-39: the try block succeeds when all four names are present.
HeaderOK(cols) == Has(cols, "id") /\ Has(cols, "x") /\ Has(cols, "y") /\ Has(cols, "z")

HeaderErrorCountFirst(cols, n) ==
    IF n = None THEN "NUMBER OF ATOMS header missing"
    ELSE IF ~HeaderOK(cols) THEN "Expected id/x/y/z columns"
    ELSE "none"

\* Lines 33-41: the column names are looked up before the atom count.
HeaderError(cols, n) ==
    IF ~HeaderOK(cols) THEN "Expected id/x/y/z columns"
    ELSE IF n = None THEN "NUMBER OF ATOMS header missing"
    ELSE "none"

\* parts[i] followed by int() or float(): IndexError, ValueError or neither.
FieldErr(parts, i) ==
    IF i >= Len(parts) THEN "index out of range"
    ELSE IF ~IsInt(parts[i + 1]) THEN "invalid literal"
    ELSE "none"

\* Lines 47-53 on one atom line: the first statement that raises.
AtomErr(parts, cx) ==
    IF parts = <<>> THEN "Unexpected EOF"
    ELSE IF FieldErr(parts, cx.id) # "none" THEN FieldErr(parts, cx.id)
    ELSE IF FieldErr(parts, cx.x) # "none" THEN FieldErr(parts, cx.x)
    ELSE IF FieldErr(parts, cx.y) # "none" THEN FieldErr(parts, cx.y)
    ELSE FieldErr(parts, cx.z)

RECURSIVE ReadAtomsBreak(_, _, _, _, _, _)
ReadAtomsBreak(f, nr, left, cx, idsAcc, posAcc) ==
    IF left = 0 \/ LineAt(f, nr).toks = <<>>
    THEN [err |-> "none", nread |-> nr, ids |-> idsAcc, pos |-> posAcc]
    ELSE LET parts == LineAt(f, nr).toks
         IN IF AtomErr(parts, cx) # "none"
            THEN [err |-> AtomErr(parts, cx), nread |-> Adv(f, nr),
                  ids |-> idsAcc, pos |-> posAcc]
            ELSE ReadAtomsBreak(f, Adv(f, nr), left - 1, cx,
                                Append(idsAcc, IntOf(parts[cx.id + 1])),
                                Append(posAcc, <<Float32Of(parts[cx.x + 1]),
                                                 Float32Of(parts[cx.y + 1]),
                                                 Float32Of(parts[cx.z + 1])>>))

\* Lines 46-53: `left` more atom lines are read after nr consumed lines.
RECURSIVE ReadAtoms(_, _, _, _, _, _)
ReadAtoms(f, nr, left, cx, idsAcc, posAcc) ==
    IF left = 0
    THEN [err |-> "none", nread |-> nr, ids |-> idsAcc, pos |-> posAcc]
    ELSE LET parts == LineAt(f, nr).toks
         IN IF AtomErr(parts, cx) # "none"
            THEN [err |-> AtomErr(parts, cx), nread |-> Adv(f, nr),
                  ids |-> idsAcc, pos |-> posAcc]
            ELSE ReadAtoms(f, Adv(f, nr), left - 1, cx,
                           Append(idsAcc, IntOf(parts[cx.id + 1])),
                           Append(posAcc, <<Float32Of(parts[cx.x + 1]),
                                            Float32Of(parts[cx.y + 1]),
                                            Float32Of(parts[cx.z + 1])>>))

\* np.argsort(ids, kind="stable"): index i goes after every index already
\* placed whose id is not greater.
InsertUnstable(order, i, v) ==
    LET k == Cardinality({e \in 1..Len(order) : v[order[e]] < v[i]})
    IN SubSeq(order, 1, k) \o <<i>> \o SubSeq(order, k + 1, Len(order))

InsertStable(order, i, v) ==
    LET k == Cardinality({e \in 1..Len(order) : v[order[e]] <= v[i]})
    IN SubSeq(order, 1, k) \o <<i>> \o SubSeq(order, k + 1, Len(order))

RECURSIVE ArgsortUpTo(_, _)
ArgsortUpTo(v, i) ==
    IF i = 0 THEN <<>> ELSE InsertStable(ArgsortUpTo(v, i - 1), i, v)

ArgsortStable(v) == ArgsortUpTo(v, Len(v))

\* pos[order]
Take(rows, order) == [k \in 1..Len(order) |-> rows[order[k]]]

RetainedOffByOne(fr, k) == fr > k

\* Line 55.
Retained(fr, k) == fr >= k

RetainedIndexRaw(fr, k) == fr

\* Line 57: the index yielded with a retained frame.
RetainedIndex(fr, k) == fr - k

AtomsSkipUnchecked ==
    IF ~Retained(frame, skip_frames)
    THEN /\ Parsing
         /\ ~StartsWith(line.toks, HDR_TS)
         /\ ~StartsWith(line.toks, HDR_N)
         /\ ~StartsWith(line.toks, HDR_BB)
         /\ StartsWith(line.toks, HDR_AT)
         /\ line' = LineAt(file, nread)
         /\ nread' = Adv(file, nread)
         /\ UNCHANGED <<inputVars, nameVars, pc, packVars, file, frame, n_atoms, ids, pos,
                        yielded>>
    ELSE
         /\ Parsing
         /\ ~StartsWith(line.toks, HDR_TS)
         /\ ~StartsWith(line.toks, HDR_N)
         /\ ~StartsWith(line.toks, HDR_BB)
         /\ StartsWith(line.toks, HDR_AT)
         /\ LET cols == line.toks
            IN IF HeaderError(cols, n_atoms) # "none"
               THEN /\ Raise(HeaderError(cols, n_atoms), grp)
                    /\ UNCHANGED <<nread, line, ids, pos, yielded>>
               ELSE LET cx == [id |-> ColIdx(cols, "id"), x |-> ColIdx(cols, "x"),
                               y |-> ColIdx(cols, "y"), z |-> ColIdx(cols, "z")]
                        r == ReadAtoms(file, nread, n_atoms, cx, <<>>, <<>>)
                    IN /\ ids' = r.ids
                       /\ pos' = r.pos
                       /\ IF r.err # "none"
                          THEN /\ Raise(r.err, grp)
                               /\ nread' = r.nread
                               /\ UNCHANGED <<line, yielded>>
                          ELSE IF Retained(frame, skip_frames)
                          THEN /\ yielded' = [fidx |-> RetainedIndex(frame, skip_frames),
                                              pos |-> Take(r.pos, ArgsortStable(r.ids))]
                               /\ pc' = "yielded"
                               /\ nread' = r.nread
                               /\ UNCHANGED <<line, cur, closes, err>>
                          ELSE /\ line' = LineAt(file, r.nread)
                               /\ nread' = Adv(file, r.nread)
                               /\ UNCHANGED <<pc, cur, closes, err, yielded>>
         /\ UNCHANGED <<inputVars, nameVars, groups, warnings, grp, seed_n_atoms,
                        frames_written, file, frame, n_atoms>>

\* Lines 31-58, up to the yield: the header is resolved, n_atoms atom lines
\* are read, and the frame is yielded or dropped.
Atoms ==
    /\ Parsing
    /\ ~StartsWith(line.toks, HDR_TS)
    /\ ~StartsWith(line.toks, HDR_N)
    /\ ~StartsWith(line.toks, HDR_BB)
    /\ StartsWith(line.toks, HDR_AT)
    /\ LET cols == line.toks
       IN IF HeaderError(cols, n_atoms) # "none"
          THEN /\ Raise(HeaderError(cols, n_atoms), grp)
               /\ UNCHANGED <<nread, line, ids, pos, yielded>>
          ELSE LET cx == [id |-> ColIdx(cols, "id"), x |-> ColIdx(cols, "x"),
                          y |-> ColIdx(cols, "y"), z |-> ColIdx(cols, "z")]
                   r == ReadAtoms(file, nread, n_atoms, cx, <<>>, <<>>)
               IN /\ ids' = r.ids
                  /\ pos' = r.pos
                  /\ IF r.err # "none"
                     THEN /\ Raise(r.err, grp)
                          /\ nread' = r.nread
                          /\ UNCHANGED <<line, yielded>>
                     ELSE IF Retained(frame, skip_frames)
                     THEN /\ yielded' = [fidx |-> RetainedIndex(frame, skip_frames),
                                         pos |-> Take(r.pos, ArgsortStable(r.ids))]
                          /\ pc' = "yielded"
                          /\ nread' = r.nread
                          /\ UNCHANGED <<line, cur, closes, err>>
                     ELSE /\ line' = LineAt(file, r.nread)
                          /\ nread' = Adv(file, r.nread)
                          /\ UNCHANGED <<pc, cur, closes, err, yielded>>
    /\ UNCHANGED <<inputVars, nameVars, groups, warnings, grp, seed_n_atoms,
                   frames_written, file, frame, n_atoms>>

\* ------------------------------------------------------ the specification
Next ==
    \/ BlankSeed
    \/ NoDump
    \/ GroupExists
    \/ OpenSeed
    \/ Return
    \/ Finalize
    \/ AppendFrame
    \/ SkipLine
    \/ Timestep
    \/ NumberOfAtoms
    \/ BoxBounds
    \/ UnknownItem
    \/ Atoms

Spec == Init /\ [][Next]_vars

\* The run over one seed with a dump: any file of the catalogue is packed.
NextOne ==
    \/ OpenOne
    \/ Return
    \/ Finalize
    \/ AppendFrame
    \/ SkipLine
    \/ Timestep
    \/ NumberOfAtoms
    \/ BoxBounds
    \/ UnknownItem
    \/ Atoms

SpecOne == InitOne /\ [][NextOne]_vars

\* ------------------------------------------- train/parse_results.py
\* A file name and its tokens are sequences of characters.
MaxTokens == 2

Digits == {Digit[k] : k \in 1..10}

Letters == {"a", "b", "c", "d", "e", "f", "g", "h", "i", "j", "k", "l", "m",
            "n", "o", "p", "q", "r", "s", "t", "u", "v", "w", "x", "y", "z",
            "A", "B", "C", "D", "E", "F", "G", "H", "I", "J", "K", "L", "M",
            "N", "O", "P", "Q", "R", "S", "T", "U", "V", "W", "X", "Y", "Z"}

\* s[n:]
Drop(s, n) == SubSeq(s, n + 1, Len(s))

\* s.isdigit() and s.isalpha(): false on the empty string.
IsDigitStr(s) == s # <<>> /\ \A k \in 1..Len(s) : s[k] \in Digits

IsAlphaStr(s) == s # <<>> /\ \A k \in 1..Len(s) : s[k] \in Letters

\* s.replace(c, '') for every c of cs.
Remove(s, cs) == SelectSeq(s, LAMBDA c : c \notin cs)

DigitVal(c) == (CHOOSE k \in 1..10 : Digit[k] = c) - 1

RECURSIVE DigitsVal(_)
DigitsVal(s) == IF s = <<>> THEN 0
                ELSE 10 * DigitsVal(SubSeq(s, 1, Len(s) - 1)) + DigitVal(s[Len(s)])

Unsigned(s) == IF s # <<>> /\ s[1] \in {"+", "-"} THEN Tail(s) ELSE s

SignOf(s) == IF s # <<>> /\ s[1] = "-" THEN -1 ELSE 1

\* int(s) succeeds on an optional sign followed by decimal digits.
IsIntStr(s) == IsDigitStr(Unsigned(s))

IntOfStr(s) == SignOf(s) * DigitsVal(Unsigned(s))

\* The values parsed holds: None, an int, a float m * 10^e with m not a
\* multiple of ten, or a string.
NoneV == [t |-> "None", m |-> 0, e |-> 0, s |-> <<>>]

IntV(n) == [t |-> "int", m |-> n, e |-> 0, s |-> <<>>]

StrV(s) == [t |-> "str", m |-> 0, e |-> 0, s |-> s]

RECURSIVE FloatV(_, _)
FloatV(m, e) == IF m = 0 THEN [t |-> "float", m |-> 0, e |-> 0, s |-> <<>>]
                ELSE IF m % 10 = 0 THEN FloatV(m \div 10, e + 1)
                ELSE [t |-> "float", m |-> m, e |-> e, s |-> <<>>]

\* The first position of s that holds a character of cs, Len(s) + 1 if none.
Find(s, cs) ==
    IF \E k \in 1..Len(s) : s[k] \in cs
    THEN CHOOSE k \in 1..Len(s) : s[k] \in cs /\ \A j \in 1..(k - 1) : s[j] \notin cs
    ELSE Len(s) + 1

\* float(s) on the decimal literals: [sign] digits [. digits] [e [sign]
\* digits], with digits on at least one side of the point.
Mantissa(s) == SubSeq(s, 1, Find(s, {"e", "E"}) - 1)

Exponent(s) == Drop(s, Find(s, {"e", "E"}))

HasExponent(s) == Find(s, {"e", "E"}) <= Len(s)

IntPart(s) == SubSeq(Unsigned(Mantissa(s)), 1, Find(Unsigned(Mantissa(s)), {"."}) - 1)

FracPart(s) == Drop(Unsigned(Mantissa(s)), Find(Unsigned(Mantissa(s)), {"."}))

IsFloatStr(s) ==
    /\ IntPart(s) \o FracPart(s) # <<>>
    /\ IsDigitStr(IntPart(s) \o FracPart(s))
    /\ HasExponent(s) => IsIntStr(Exponent(s))

FloatOfStr(s) ==
    FloatV(SignOf(s) * DigitsVal(IntPart(s) \o FracPart(s)),
           (IF HasExponent(s) THEN IntOfStr(Exponent(s)) ELSE 0) - Len(FracPart(s)))

\* Lines 16-21.
parse_numeric(s) == IF IsFloatStr(s) THEN FloatOfStr(s) ELSE NoneV

\* Line 37: os.path.splitext(filename)[0], for a name with no directory: the
\* name up to its last dot, unless only dots come before that dot.
LastDot(s) ==
    IF \E k \in 1..Len(s) : s[k] = "."
    THEN CHOOSE k \in 1..Len(s) : s[k] = "." /\ \A j \in (k + 1)..Len(s) : s[j] # "."
    ELSE 0

Stem(s) == IF \E k \in 1..(LastDot(s) - 1) : s[k] # "."
           THEN SubSeq(s, 1, LastDot(s) - 1) ELSE s

\* Line 38: stem.split("_").
RECURSIVE Split(_)
Split(s) == IF Find(s, {"_"}) > Len(s) THEN <<s>>
            ELSE <<SubSeq(s, 1, Find(s, {"_"}) - 1)>> \o Split(Drop(s, Find(s, {"_"})))

Put(d, k, v) == (k :> v) @@ d

\* Lines 42-46: a first token of one to three letters is the element.
Heuristic1(ps, d) ==
    IF IsAlphaStr(ps[1]) /\ Len(ps[1]) <= 3 THEN Put(d, "element", StrV(ps[1])) ELSE d

\* Line 50: re.search(r"m_([A-Za-z]+)(\d+)_", stem).  No group matches an
\* underscore, so a match is a token that ends in m, followed by a token made
\* of letters then digits that is not the last token; search returns the
\* leftmost one.
IsElemTemp(tok) ==
    /\ Find(tok, Digits) > 1
    /\ IsAlphaStr(SubSeq(tok, 1, Find(tok, Digits) - 1))
    /\ IsDigitStr(Drop(tok, Find(tok, Digits) - 1))

MatchAt(ps, k) ==
    /\ k + 1 < Len(ps)
    /\ ps[k] # <<>>
    /\ ps[k][Len(ps[k])] = "m"
    /\ IsElemTemp(ps[k + 1])

\* Lines 51-58: setdefault("element", ...) and temperature.
Heuristic2(ps, d) ==
    IF \E k \in 1..Len(ps) : MatchAt(ps, k)
    THEN LET k == CHOOSE k \in 1..Len(ps) :
                     MatchAt(ps, k) /\ \A j \in 1..(k - 1) : ~MatchAt(ps, j)
             tok == ps[k + 1]
             elem == SubSeq(tok, 1, Find(tok, Digits) - 1)
             temp == Drop(tok, Find(tok, Digits) - 1)
             d1 == IF "element" \in DOMAIN d THEN d ELSE Put(d, "element", StrV(elem))
         IN Put(d1, "temperature", IntV(IntOfStr(temp)))
    ELSE d

\* Lines 63-107: the branches of the if/elif chain, in the order of the code.
Branches == <<"bf", "dconv", "dfc", "bin", "dx", "dy", "dz", "phase", "width",
              "bs", "w", "ma", "lr", "m", "s", "init", "mice">>

\* The literal a branch compares the token with.
Lit(b) == CASE b = "bf" -> <<"b", "f">>
            [] b = "dconv" -> <<"d", "c", "o", "n", "v">>
            [] b = "dfc" -> <<"d", "f", "c">>
            [] b = "bin" -> <<"b", "i", "n">>
            [] b = "dx" -> <<"d", "x">>
            [] b = "dy" -> <<"d", "y">>
            [] b = "dz" -> <<"d", "z">>
            [] b = "width" -> <<"w", "i", "d", "t", "h">>
            [] b = "bs" -> <<"b", "s">>
            [] b = "w" -> <<"w">>
            [] b = "ma" -> <<"m", "a">>
            [] b = "lr" -> <<"l", "r">>
            [] b = "m" -> <<"m">>
            [] b = "s" -> <<"s">>
            [] b = "init" -> <<"i", "n", "i", "t">>
            [] b = "mice" -> <<"m", "i", "c", "e">>

\* The condition of a branch.
Matches(b, part) ==
    CASE b = "bin" -> /\ StartsWith(part, Lit(b))
                      /\ Len(part) > 3
                      /\ IsDigitStr(Drop(part, 3))
      [] b = "phase" -> part \in {<<"S">>, <<"L">>}
      [] b \in {"w", "s"} -> /\ StartsWith(part, Lit(b))
                             /\ Len(part) > 1
                             /\ IsDigitStr(Drop(part, 1))
      [] b = "m" -> StartsWith(part, Lit(b)) /\ Len(part) > 1
      [] b = "mice" -> part = Lit(b)
      [] OTHER -> StartsWith(part, Lit(b))

\* The first branch of the chain whose condition holds.
Branch(part) ==
    IF \E k \in 1..Len(Branches) : Matches(Branches[k], part)
    THEN Branches[CHOOSE k \in 1..Len(Branches) :
                     /\ Matches(Branches[k], part)
                     /\ \A j \in 1..(k - 1) : ~Matches(Branches[j], part)]
    ELSE "none"

Done(d) == [raised |-> FALSE, parsed |-> d]

\* parsed[key] = int(str): ValueError when str is no integer literal.
IntField(d, key, str) ==
    IF IsIntStr(str) THEN Done(Put(d, key, IntV(IntOfStr(str))))
    ELSE [raised |-> TRUE, parsed |-> d]

\* Line 100: m_str is digits once '.', '-', 'e' and 'E' are removed, or it
\* holds an e.
LooksNumeric(str) ==
    \/ IsDigitStr(Remove(str, {".", "-", "e", "E"}))
    \/ \E k \in 1..Len(str) : str[k] \in {"e", "E"}

\* The body of branch b on one token.
Body(b, part, d) ==
    CASE b = "bf" -> Done(Put(d, "bf", parse_numeric(Drop(part, 2))))
      [] b = "dconv" -> Done(Put(d, "d_conv", parse_numeric(Drop(part, 5))))
      [] b = "dfc" -> Done(Put(d, "d_fc", parse_numeric(Drop(part, 3))))
      [] b = "bin" ->
           IF ~StartsWith(part, <<"b", "i", "n", "y">>)
              /\ ~StartsWith(part, <<"b", "i", "n", "z">>)
           THEN Done(Put(d, "bin", IntV(IntOfStr(Drop(part, 3)))))
           ELSE Done(d)
      [] b = "dx" -> IntField(d, "binx", Drop(part, 2))
      [] b = "dy" -> IntField(d, "biny", Drop(part, 2))
      [] b = "dz" -> IntField(d, "binz", Drop(part, 2))
      [] b = "phase" -> Done(Put(d, "phase", StrV(part)))
      [] b = "width" -> IntField(d, "width", Drop(part, 5))
      [] b = "bs" -> IntField(d, "bs", Drop(part, 2))
      [] b = "w" -> Done(Put(d, "w", IntV(IntOfStr(Drop(part, 1)))))
      [] b = "ma" -> Done(Put(d, "ma", parse_numeric(Drop(part, 2))))
      [] b = "lr" -> Done(Put(d, "lr", parse_numeric(Drop(part, 2))))
      [] b = "m" -> IF LooksNumeric(Drop(part, 1))
                    THEN Done(Put(d, "m", parse_numeric(Drop(part, 1))))
                    ELSE Done(d)
      [] b = "s" -> Done(Put(d, "seed", IntV(IntOfStr(Drop(part, 1)))))
      [] b = "init" -> Done(Put(d, "init", StrV(Drop(part, 4))))
      [] b = "mice" -> Done(Put(d, "method", StrV(Lit("mice"))))
      [] OTHER -> Done(d)

\* Lines 110-111.
WithDims(d) ==
    IF {"binx", "biny", "binz"} \subseteq DOMAIN d
    THEN Put(d, "dims", IntV(d["binx"].m * d["biny"].m * d["binz"].m))
    ELSE d

\* The tokens the file names of the model are made of: those of the example
\* of the docstring (line 28), a lone m followed by Na365 for the pattern of
\* line 50, and dx with no number.
NameTokens ==
    {<<"N", "a">>,
     <<"m", "2", ".", "5">>,
     <<"m", "i", "c", "e">>,
     <<"m", "a", "3", "e", "-", "0", "7">>,
     <<"l", "r", "3", "e", "-", "0", "5">>,
     <<"b", "f", "0", ".", "4">>,
     <<"b", "i", "n", "3", "2">>,
     <<"d", "x", "1", "6">>,
     <<"d", "y", "1", "6">>,
     <<"d", "z", "1", "6">>,
     <<"w", "i", "d", "t", "h", "2", "0">>,
     <<"w", "1", "6">>,
     <<"b", "s", "5", "0", "0">>,
     <<"s", "4", "2">>,
     <<"S">>,
     <<"i", "n", "i", "t", "x", "a", "v", "i", "e", "r">>,
     <<"m">>,
     <<"N", "a", "3", "6", "5">>,
     <<"d", "x">>}

RECURSIVE Join(_)
Join(ts) == IF Len(ts) = 1 THEN ts[1] ELSE ts[1] \o <<"_">> \o Join(Tail(ts))

\* Line 166: the names parse_results_folder passes on end in _metrics.npy.
MetricsSuffix == <<"_", "m", "e", "t", "r", "i", "c", "s", ".", "n", "p", "y">>

Filenames ==
    {Join(ts) \o MetricsSuffix :
        ts \in UNION {[1..k -> NameTokens] : k \in 1..MaxTokens}}

\* The variables parse_filename does not touch.
restVars == <<inputVars, pc, packVars, parseVars>>

\* Lines 37-58: the name is split and the two heuristics are applied.
ParseStart ==
    /\ name_pc = "start"
    /\ name_parts' = Split(Stem(filename))
    /\ parsed' = Heuristic2(Split(Stem(filename)),
                            Heuristic1(Split(Stem(filename)), NoKeys))
    /\ part_no' = 1
    /\ name_pc' = "loop"
    /\ UNCHANGED <<filename, restVars>>

\* Lines 62-107: one iteration of the for loop.
ParseToken ==
    /\ name_pc = "loop"
    /\ part_no <= Len(name_parts)
    /\ LET r == Body(Branch(name_parts[part_no]), name_parts[part_no], parsed)
       IN /\ parsed' = r.parsed
          /\ name_pc' = IF r.raised THEN "raised" ELSE "loop"
          /\ part_no' = IF r.raised THEN part_no ELSE part_no + 1
    /\ UNCHANGED <<filename, name_parts, restVars>>

\* Lines 109-113.
ParseReturn ==
    /\ name_pc = "loop"
    /\ part_no > Len(name_parts)
    /\ parsed' = WithDims(parsed)
    /\ name_pc' = "returned"
    /\ UNCHANGED <<filename, name_parts, part_no, restVars>>

\* parse_filename called on one file name; pack_dataset_to_h5 is not run.
InitName ==
    /\ NameInit(Filenames, "start")
    /\ PackInit({<<>>}, {0})

NextName ==
    \/ ParseStart
    \/ ParseToken
    \/ ParseReturn

SpecName == InitName /\ [][NextName]_vars

\* ------------------------------------------------ reading a file by hand
\* What a dump file holds, read off its lines without running the parser.
IsWellFormed(f) == f \in WellFormedFiles

TimestepLines(f) == {i \in 1..Len(f) : StartsWith(f[i], HDR_TS)}

NumFrames(f) == Cardinality(TimestepLines(f))

\* The line number of the TIMESTEP header of frame k (0-based).
FrameStart(f, k) ==
    CHOOSE i \in TimestepLines(f) :
        Cardinality({j \in TimestepLines(f) : j < i}) = k

FrameEnd(f, k) ==
    IF k + 1 < NumFrames(f) THEN FrameStart(f, k + 1) - 1 ELSE Len(f)

HeaderLine(f, k, hdr) ==
    CHOOSE i \in FrameStart(f, k)..FrameEnd(f, k) : StartsWith(f[i], hdr)

DeclaredAtoms(f, k) == IntOf(f[HeaderLine(f, k, HDR_N) + 1][1])

\* The token of an atom line under the column called name.
Under(cols, parts, name) ==
    parts[(CHOOSE c \in 1..Len(cols) : cols[c] = name) - 2]

AtomOf(cols, parts) ==
    [id |-> IntOf(Under(cols, parts, "id")),
     row |-> <<IntOf(Under(cols, parts, "x")), IntOf(Under(cols, parts, "y")),
               IntOf(Under(cols, parts, "z"))>>]

\* The atoms of frame k of a well-formed file, in file order.
FrameAtoms(f, k) ==
    LET h == HeaderLine(f, k, HDR_AT)
    IN [i \in 1..DeclaredAtoms(f, k) |-> AtomOf(f[h], f[h + i])]

Range(s) == {s[i] : i \in DOMAIN s}

Finalized(g) == g \in DOMAIN groups /\ "frames" \in DOMAIN groups[g].attrs

\* The generator of the seed in progress ran to its end.
Exhausted == pc \in {"seed", "done"} /\ Finalized(grp)

\* ----------------------------------------------------------------- claims
\* C1: for a well-formed dump of T frames and skip_frames = k the generator
\* yields exactly max(0, T - k) frames, never a frame whose TIMESTEP counter
\* is below k, and the first frame it yields holds the atoms of the file's
\* frame k.
C1_SkipPrefix ==
    IsWellFormed(file) =>
        /\ pc = "yielded" =>
              /\ frame >= skip_frames
              /\ yielded.fidx = 0 =>
                    /\ frame = skip_frames
                    /\ Len(yielded.pos) = DeclaredAtoms(file, skip_frames)
                    /\ Range(yielded.pos) =
                         {a.row : a \in Range(FrameAtoms(file, skip_frames))}
        /\ Exhausted => frames_written = Max(0, NumFrames(file) - skip_frames)
        /\ pc \in {"parse", "yielded"} =>
              frames_written <= Max(0, NumFrames(file) - skip_frames)

C1_Witness ==
    /\ Exhausted
    /\ IsWellFormed(file)
    /\ NumFrames(file) = 3
    /\ skip_frames = 2
    /\ frames_written = 1
    /\ DeclaredAtoms(file, 2) = 2
    /\ Range(groups[grp].dset.data[1]) = {a.row : a \in Range(FrameAtoms(file, 2))}

\* C2: the rows of every yielded frame are in ascending order of atom id,
\* rows of equal id keep their input order, and the rows are a permutation
\* of the rows read: none lost, none repeated, no duplicate id rejected.
StableOrder(p, v) ==
    /\ \A i \in 1..Len(v) : \E k \in 1..Len(v) : p[k] = i
    /\ \A k, l \in 1..Len(v) :
          k < l => \/ v[p[k]] < v[p[l]]
                   \/ v[p[k]] = v[p[l]] /\ p[k] < p[l]

C2_StableSort ==
    pc = "yielded" =>
        /\ Len(ids) = n_atoms
        /\ Len(yielded.pos) = Len(pos)
        /\ \E p \in [1..Len(ids) -> 1..Len(ids)] :
              /\ StableOrder(p, ids)
              /\ yielded.pos = [k \in 1..Len(ids) |-> pos[p[k]]]

\* Two atom lines with the same id and different positions were read and
\* yielded in their input order.
C2_Witness ==
    /\ pc = "yielded"
    /\ Len(ids) = 2
    /\ ids[1] = ids[2]
    /\ yielded.pos = pos
    /\ pos[1] # pos[2]

\* C3: a finalized seed that retained f >= 1 frames has a positions array of
\* shape (f, n_atoms, 3), frames = f and n_atoms = the atom count of its
\* frames.
ShapeIs(d, f, n) ==
    /\ d.exists
    /\ d.n = n
    /\ Len(d.data) = f
    /\ \A i \in 1..Len(d.data) :
          /\ Len(d.data[i]) = n
          /\ \A r \in 1..n : Len(d.data[i][r]) = 3

DeclaredCounts(f) ==
    {IntOf(f[i + 1][1]) : i \in {j \in 1..Len(f) : StartsWith(f[j], HDR_N)}}

C3_FinalShape ==
    /\ \A g \in DOMAIN groups :
          Finalized(g) /\ groups[g].attrs["frames"] >= 1 =>
              /\ "n_atoms" \in DOMAIN groups[g].attrs
              /\ ShapeIs(groups[g].dset, groups[g].attrs["frames"],
                         groups[g].attrs["n_atoms"])
    /\ Exhausted /\ frames_written >= 1 =>
          /\ groups[grp].attrs["frames"] = frames_written
          /\ \A n \in 1..MaxAtoms :
                DeclaredCounts(file) = {n} => groups[grp].attrs["n_atoms"] = n

C3_Witness ==
    /\ Exhausted
    /\ frames_written = 2
    /\ DeclaredCounts(file) = {2}
    /\ ShapeIs(groups[grp].dset, 2, 2)
    /\ groups[grp].attrs["frames"] = 2

\* C4 as stated: a seed that retained no frame still has an empty positions
\* array of shape (0, n_atoms, 3).
C4_EmptyArrayCreated ==
    \A g \in DOMAIN groups :
        Finalized(g) /\ groups[g].attrs["frames"] = 0 =>
            /\ groups[g].dset.exists
            /\ Len(groups[g].dset.data) = 0

HasDump(i) == Strip(seeds[i]) \in dumps

\* C4 as amended: a seed that retained no frame ends with frames = 0, no
\* positions array and no n_atoms attribute; it is warned about once, raises
\* nothing, and the run goes on to the seeds after it.
C4_EmptySeedHasNoArray ==
    /\ \A g \in DOMAIN groups :
          Finalized(g) /\ groups[g].attrs["frames"] = 0 =>
              /\ ~groups[g].dset.exists
              /\ "n_atoms" \notin DOMAIN groups[g].attrs
              /\ Cardinality({w \in DOMAIN warnings :
                                warnings[w] = <<"No frames written", g>>}) = 1
              /\ err.kind # "none" => err.seed # g \/ err.kind = "group exists"
    /\ pc = "done" =>
          \A i \in 1..Len(seeds) : HasDump(i) => Finalized(Strip(seeds[i]))

\* The run is over, its first seed retained nothing and a later one did.
C4_Witness ==
    /\ pc = "done"
    /\ Len(seeds) = 2
    /\ Finalized(Strip(seeds[1]))
    /\ groups[Strip(seeds[1])].attrs["frames"] = 0
    /\ Strip(seeds[2]) = grp
    /\ groups[grp].attrs["frames"] = 2

\* C5: a frame whose row count differs from the n_atoms the seed fixed is
\* never stored: the append of such a frame ends in a fatal error.
C5_MismatchIsFatal ==
    [][(pc = "yielded" /\ seed_n_atoms # None
           /\ Len(yielded.pos) # seed_n_atoms) => pc' = "raised"]_vars

SeedsUpTo(i) == {Strip(seeds[j]) : j \in 1..i}

C7_ClosedOnceDataKept ==
    /\ [](/\ closes <= 1
          /\ (pc \in {"done", "raised"}) <=> (closes = 1)
          /\ (pc = "raised") <=> (err.kind # "none"))
    /\ [][\A g \in DOMAIN groups :
            Finalized(g) => g \in DOMAIN groups' /\ groups'[g] = groups[g]]_vars

\* An error in the middle of a seed, after a frame of it was written, with
\* an earlier seed finalized.
C7_Witness ==
    /\ pc = "raised"
    /\ closes = 1
    /\ err.kind = "Unexpected EOF"
    /\ frames_written >= 1
    /\ \E g \in DOMAIN groups : Finalized(g) /\ groups[g].attrs["frames"] >= 1

\* C8: an ITEM: ATOMS header that lacks one of id, x, y, z raises at once,
\* with or without a known atom count: no line after the header is consumed
\* and no frame is yielded for the section.
LacksColumn(toks) ==
    /\ StartsWith(toks, HDR_AT)
    /\ \E name \in {"id", "x", "y", "z"} : name \notin Range(toks)

C8_BadHeaderRaisesAtOnce ==
    \A i \in 1..nread :
        LacksColumn(file[i]) =>
            /\ i = nread
            /\ \/ pc = "parse" /\ line.toks = file[i]
               \/ /\ pc = "raised"
                  /\ err.kind = "Expected id/x/y/z columns"
                  /\ err.seed = grp

C8_Witness ==
    /\ pc = "raised"
    /\ nread >= 1
    /\ LacksColumn(file[nread])
    /\ n_atoms = None
    /\ nread < Len(file)

\* C9: when the input ends before n_atoms atom lines were read the parser
\* raises and yields nothing for the section; every yielded frame was built
\* from exactly n_atoms atom lines.
IsAtomLine(toks) == Len(toks) >= 4 /\ \A t \in Range(toks) : IsInt(t)

C9_NoPartialFrame ==
    /\ pc = "yielded" =>
          /\ Len(ids) = n_atoms
          /\ Len(yielded.pos) = n_atoms
          /\ nread > n_atoms
          /\ StartsWith(file[nread - n_atoms], HDR_AT)
          /\ \A i \in 1..n_atoms : IsAtomLine(file[nread - n_atoms + i])
    /\ \A h \in 1..nread :
          (/\ StartsWith(file[h], HDR_AT)
           /\ ~LacksColumn(file[h])
           /\ n_atoms # None
           /\ h + n_atoms > Len(file)) =>
              \/ h = nread /\ pc = "parse" /\ line.toks = file[h]
              \/ pc = "raised" /\ err.kind = "Unexpected EOF"

C9_Witness ==
    /\ pc = "raised"
    /\ err.kind = "Unexpected EOF"
    /\ n_atoms = 2
    /\ Len(ids) = 1
    /\ nread = Len(file)

\* C10: a seed with no dump is skipped with one warning and gets no group;
\* it raises nothing, the container is still written and closed, and every
\* seed that has a dump is processed.
Missing(i) == Strip(seeds[i]) # <<>> /\ ~HasDump(i)

C10_MissingDumpSkipped ==
    /\ \A i \in 1..Len(seeds) :
          Missing(i) => /\ Strip(seeds[i]) \notin DOMAIN groups
                        /\ err.seed # Strip(seeds[i])
    /\ Cardinality({w \in DOMAIN warnings : warnings[w][1] = "No dump found"})
          = Cardinality({i \in 1..(cur - 1) : Missing(i)})
    /\ pc = "done" =>
          /\ closes = 1
          /\ DOMAIN groups = {Strip(seeds[i]) : i \in {j \in 1..Len(seeds) : HasDump(j)}}
          /\ \A g \in DOMAIN groups : Finalized(g)

C10_Witness ==
    /\ pc = "done"
    /\ Len(seeds) = 2
    /\ Missing(1)
    /\ Len(warnings) = 1
    /\ warnings[1] = <<"No dump found", Strip(seeds[1])>>
    /\ DOMAIN groups = {Strip(seeds[2])}
    /\ groups[Strip(seeds[2])].attrs["frames"] >= 1

\* C11: opening a seed whose stripped identifier already has a group raises
\* and leaves that group as it was; every seed that was opened is the first
\* of the list with its identifier, so one group stands for one identifier.
Opened(j) == Strip(seeds[j]) # <<>> /\ HasDump(j)

C11_DuplicateSeedFails ==
    /\ [][(AtSeed /\ Strip(seeds[cur]) \in DOMAIN groups) =>
             /\ pc' = "raised"
             /\ err' = [kind |-> "group exists", seed |-> Strip(seeds[cur])]
             /\ groups' = groups]_vars
    /\ [](\A j \in 1..Len(seeds) :
            (Opened(j) /\ (j < cur \/ (j = cur /\ pc \in {"parse", "yielded"}))) =>
                \A i \in 1..(j - 1) : Strip(seeds[i]) # Strip(seeds[j]))
    /\ [](err.kind = "group exists" =>
            /\ Finalized(err.seed)
            /\ \E i \in 1..(cur - 1) : Strip(seeds[i]) = Strip(seeds[cur]))

\* The second seed is the first one followed by a blank; the first seed's
\* group holds its frames.
C11_Witness ==
    /\ pc = "raised"
    /\ err.kind = "group exists"
    /\ seeds[1] # seeds[2]
    /\ Finalized(err.seed)
    /\ groups[err.seed].attrs["frames"] >= 1
    /\ Len(groups[err.seed].dset.data) = groups[err.seed].attrs["frames"]

\* C12: id, x, y and z are read under their names in the ITEM: ATOMS
\* header, at the header position minus 2, so files that hold the same atoms
\* under the layouts `id type x y z`, `id x y z type` and `z y x id` yield
\* the same frames.
SameDataFiles ==
    {FileOf(s, ns, 0, "none") : s \in {"desc", "altB", "altC"}, ns \in AtomCounts}

\* Frame j of n atoms of those files, whatever the layout: the atom of id k
\* is on atom line n + 1 - k.
SameData(j, n) ==
    [k \in 1..n |-> <<IntOf(Cell("x", j, n + 1 - k, k)),
                      IntOf(Cell("y", j, n + 1 - k, k)),
                      IntOf(Cell("z", j, n + 1 - k, k))>>]

C12_ColumnOrderIndependent ==
    pc = "yielded" =>
        /\ \A i \in 1..n_atoms :
              /\ ids[i] = AtomOf(file[nread - n_atoms], file[nread - n_atoms + i]).id
              /\ pos[i] = AtomOf(file[nread - n_atoms], file[nread - n_atoms + i]).row
        /\ file \in SameDataFiles => yielded.pos = SameData(frame, n_atoms)

\* A frame of the layout z y x id.
C12_Witness ==
    /\ pc = "yielded"
    /\ file \in SameDataFiles
    /\ SubSeq(file[nread - n_atoms], 3, 6) = LayoutC
    /\ frame = 1
    /\ n_atoms = 2
    /\ yielded.pos = SameData(1, 2)
    /\ yielded.pos[1] # yielded.pos[2]

\* C13: every append makes the positions array one frame longer and writes
\* the newest slot only: the length never decreases and no step changes a
\* slot written earlier.
SlotsOf(g) == IF g \in DOMAIN groups /\ groups[g].dset.exists
              THEN groups[g].dset.data ELSE <<>>

C13_AppendOnly ==
    [][/\ \A g \in DOMAIN groups :
             /\ g \in DOMAIN groups'
             /\ groups[g].dset.exists => groups'[g].dset.exists
             /\ Len(groups'[g].dset.data) >= Len(SlotsOf(g))
             /\ \A i \in 1..Len(SlotsOf(g)) :
                   groups'[g].dset.data[i] = groups[g].dset.data[i]
             /\ g # grp => groups'[g] = groups[g]
       /\ pc = "yielded" =>
             /\ Len(groups'[grp].dset.data) = Len(SlotsOf(grp)) + 1
             /\ (pc' = "parse" /\ Len(yielded.pos) = groups'[grp].dset.n) =>
                   groups'[grp].dset.data[Len(SlotsOf(grp)) + 1] = yielded.pos
       /\ pc # "yielded" =>
             \A g \in DOMAIN groups :
                 Len(groups'[g].dset.data) = Len(SlotsOf(g))]_vars

\* Three frames were appended one after the other and all three are held.
C13_Witness ==
    /\ frames_written = 3
    /\ Len(SlotsOf(grp)) = 3
    /\ SlotsOf(grp)[1] # SlotsOf(grp)[2]
    /\ SlotsOf(grp)[2] # SlotsOf(grp)[3]
    /\ SlotsOf(grp)[1] # ZeroFrame(groups[grp].dset.n)

\* C14: the positions array of a seed is created by the append of the
\* seed's first retained frame and by nothing else, with n_atoms the row
\* count of that frame; n_atoms never changes afterwards, and as long as no
\* frame was retained the group holds no array.
C14_LazyCreation ==
    /\ [](\A g \in DOMAIN groups :
            /\ groups[g].dset.exists <=> "n_atoms" \in DOMAIN groups[g].attrs
            /\ groups[g].dset.exists =>
                  /\ Len(groups[g].dset.data) >= 1
                  /\ groups[g].attrs["n_atoms"] = groups[g].dset.n
            /\ (g = grp /\ frames_written = 0) =>
                  ~groups[g].dset.exists)
    /\ [][\A g \in DOMAIN groups :
            /\ groups[g].dset.exists =>
                  /\ groups'[g].dset.exists
                  /\ groups'[g].dset.n = groups[g].dset.n
                  /\ groups'[g].attrs["n_atoms"] = groups[g].attrs["n_atoms"]
            /\ (~groups[g].dset.exists /\ groups'[g].dset.exists) =>
                  /\ pc = "yielded"
                  /\ g = grp
                  /\ frames_written = 0
                  /\ frame >= skip_frames
                  /\ groups'[g].dset.n = Len(yielded.pos)]_vars

\* The frame below the threshold has one atom, the first retained frame has
\* two and fixes n_atoms, the last has one again.
C14_Witness ==
    /\ Exhausted
    /\ IsWellFormed(file)
    /\ skip_frames = 1
    /\ NumFrames(file) = 3
    /\ DeclaredAtoms(file, 0) = 1
    /\ DeclaredAtoms(file, 1) = 2
    /\ DeclaredAtoms(file, 2) = 1
    /\ groups[grp].attrs["n_atoms"] = 2
    /\ groups[grp].dset.n = 2
    /\ groups[grp].attrs["frames"] = 2

\* C15: a line met while scanning for a section header that is none of the
\* four known headers (a blank line, a comment, an unknown ITEM: header) is
\* passed over: the next line is read, the frame counter, the atom count and
\* the container are as before, nothing is yielded and nothing raised; the
\* end of input met while scanning ends the generator with no error.
Recognized(toks) ==
    \/ StartsWith(toks, HDR_TS)
    \/ StartsWith(toks, HDR_N)
    \/ StartsWith(toks, HDR_BB)
    \/ StartsWith(toks, HDR_AT)

C15_UnknownLinesSkipped ==
    [][/\ (Parsing /\ ~Recognized(line.toks)) =>
             /\ line' = LineAt(file, nread)
             /\ nread' = Adv(file, nread)
             /\ UNCHANGED <<frame, n_atoms, ids, pos, yielded, pc, err, groups,
                            frames_written, closes>>
       /\ (pc = "parse" /\ line.eof) =>
             /\ pc' = "seed"
             /\ UNCHANGED <<err, closes, frame, n_atoms, yielded, frames_written>>
             /\ groups'[grp].attrs["frames"] = frames_written]_vars

\* The unknown section ITEM: UNITS of the second frame was passed over, after
\* a blank line and a comment line before it.
C15_Witness ==
    /\ pc = "parse"
    /\ nread >= 2
    /\ file[nread - 1] = <<"ITEM:", "UNITS">>
    /\ line.toks = file[nread]
    /\ \E i \in 1..nread : file[i] = <<>>
    /\ frame = 1
    /\ n_atoms = 2
    /\ frames_written = 1
    /\ err = NoErr

\* C16 as stated: whatever the sections of the file, every yielded frame
\* carries the index of the slot it is appended at, and the index is never
\* negative.
C16_SlotIsIndex ==
    pc = "yielded" => yielded.fidx = frames_written /\ yielded.fidx >= 0

\* The ATOMS headers among the first n lines of f, and the TIMESTEP sections
\* begun at line i.
AtomsLines(f, n) == {i \in 1..n : StartsWith(f[i], HDR_AT)}

TimestepsBefore(f, i) == Cardinality({t \in TimestepLines(f) : t < i})

\* The k-th ATOMS section read lies in the k-th TIMESTEP section.
OneAtomsPerTimestep(f, n) ==
    \A a \in AtomsLines(f, n) :
        TimestepsBefore(f, a) = Cardinality({b \in AtomsLines(f, n) : b <= a})

\* C16 as amended: the yielded index is the TIMESTEP counter minus
\* skip_frames and is never negative; it is the slot the frame is appended
\* at when each TIMESTEP section read so far holds one ATOMS section.
C16_SlotIsIndexWhenAlternating ==
    pc = "yielded" =>
        /\ yielded.fidx = frame - skip_frames
        /\ yielded.fidx >= 0
        /\ OneAtomsPerTimestep(file, nread) => yielded.fidx = frames_written

\* The third frame of a file is yielded with index 1 for slot 1, the first
\* frame skipped.
C16_Witness ==
    /\ pc = "yielded"
    /\ skip_frames = 1
    /\ frame = 2
    /\ OneAtomsPerTimestep(file, nread)
    /\ yielded.fidx = 1
    /\ frames_written = 1

\* C17: the errors of an ATOMS section do not look at skip_frames: a header
\* that lacks a column, an atom count not yet known and an atom block cut by
\* the end of input raise in a section whose frame counter is below
\* skip_frames as they do in a retained one.
SectionError(f, n, cols, count) ==
    IF LacksColumn(cols) THEN "Expected id/x/y/z columns"
    ELSE IF count = None THEN "NUMBER OF ATOMS header missing"
    ELSE IF n + count > Len(f) THEN "Unexpected EOF"
    ELSE "none"

C17_ErrorsIgnoreSkip ==
    [][(Parsing /\ StartsWith(line.toks, HDR_AT)
          /\ SectionError(file, nread, line.toks, n_atoms) # "none") =>
             /\ pc' = "raised"
             /\ err' = [kind |-> SectionError(file, nread, line.toks, n_atoms),
                        seed |-> grp]
             /\ UNCHANGED <<yielded, frames_written, groups>>]_vars

\* The header of the second frame lacks a column and skip_frames is 2.
C17_Witness ==
    /\ pc = "raised"
    /\ err.kind = "Expected id/x/y/z columns"
    /\ frame = 1
    /\ skip_frames = 2
    /\ frames_written = 0
    /\ n_atoms # None

\* C18: for a name that ends in _metrics.npy and holds one token m<number>,
\* parse_filename returns m = the number of that token, whatever the other
\* tokens are.
IsMNumber(part) ==
    /\ Len(part) > 1
    /\ part[1] = "m"
    /\ IsFloatStr(Drop(part, 1))

MNumbers(ps) == {k \in 1..Len(ps) : IsMNumber(ps[k])}

C18_MIsTokenValue ==
    (name_pc = "returned" /\ Cardinality(MNumbers(name_parts)) = 1) =>
        /\ "m" \in DOMAIN parsed
        /\ \A k \in MNumbers(name_parts) :
              parsed["m"] = FloatOfStr(Drop(name_parts[k], 1))

\* C19: every token is handled by the most specific branch whose condition
\* it meets, the one with the longest literal; the token mice sets method
\* and no other key.
Specificity(b) == IF b = "phase" THEN 1 ELSE Len(Lit(b))

Matching(part) ==
    {Branches[k] : k \in {j \in 1..Len(Branches) : Matches(Branches[j], part)}}

MostSpecific(part) ==
    IF Matching(part) = {} THEN "none"
    ELSE CHOOSE b \in Matching(part) :
             \A c \in Matching(part) : Specificity(c) <= Specificity(b)

C19_MostSpecificFirst ==
    [][(name_pc = "loop" /\ part_no <= Len(name_parts)) =>
          /\ parsed' = Body(MostSpecific(name_parts[part_no]),
                            name_parts[part_no], parsed).parsed
          /\ name_parts[part_no] = Lit("mice") =>
                parsed' = Put(parsed, "method", StrV(Lit("mice")))]_vars

====
